---- MODULE Spec2Model ----
(***************************************************************************)
(* State-machine model of ziwei-saint's PersistentStorage                  *)
(* (src/ziwei-saint/src/storage/PersistentStorage.ts): the in-memory       *)
(* key/value store with size accounting, TTL expiry, cleanup, the          *)
(* encryption envelope, findByTag, the simulated replication fan-out and   *)
(* forceSync.  Spec exercises one key with every option; SpecRead adds     *)
(* tags and tampered ciphertext, SpecSync the forceSync status cycle,      *)
(* SpecEvict fills the store through several keys, SpecKey puts, deletes   *)
(* and reads one value on one key, SpecLife follows the                    *)
(* periodic timers and shutdown (SpecLifeFair with the pending timers      *)
(* firing), SpecExpire lets entries expire under the timers, and SpecTwo   *)
(* runs a second instance next to the first.  The modules around the store *)
(* have their own specifications: SpecCore (CoreSystem), SpecUpdate        *)
(* (SelfUpdateModule) and SpecHistory (the histories of SecurityModule and *)
(* AIDecisionEngine).                                                      *)
(*                                                                         *)
(* Sizes are counted in characters of the JSON text: the code keeps        *)
(* sizeTracker in KB (length / 1024) and maxStorageSize in MB, so every    *)
(* comparison of the code is the same comparison on characters.            *)
(***************************************************************************)
EXTENDS Integers, Sequences, FiniteSets, TLC

\* ------------------------------------------------------------- bounds
\* config.maxStorageSize, expressed in characters of serialized JSON
MaxStorageChars == 3
\* Date.now() of the first call, the milliseconds between two readings of the
\* clock that differ, and how many times the clock advances
StartTime == 1
TickMillis == 2
MaxTicks == 1
\* a key's version is not pushed beyond MaxVersion
MaxVersion == 2
\* number of set/delete calls that may be suspended in replication at once
MaxCalls == 1
\* a node's storageUsed (counted in tenths, one per replicated set)
MaxNodeStorageUsed == 1
\* setTimeout callbacks of forceSync that may be pending for one node
MaxTimers == 1
\* runs of performBackup that are followed
MaxBackups == 1
\* commands that CoreSystem.processCommand takes
MaxCommands == 3
\* calls of SelfUpdateModule.performUpdate that may be in flight at once
MaxUpdateCalls == 2
\* updates that SelfUpdateModule applies (the patch number of currentVersion)
MaxUpdates == 2
\* entries pushed to a history beyond the number it keeps
MaxOverflow == 2

\* ------------------------------------------------- program constants
\* the default config.replicationFactor: the store creates replicationFactor - 1 nodes
ReplicationFactor == 3
\* JSON.stringify({encrypted, iv}) without the two hex strings:
\* {"encrypted":"  (14)  ","iv":"  (8)  "}  (2), and the 32 hex digits of the iv
EnvelopeOverhead == 56
\* AES block size in bytes; the ciphertext is padded to whole blocks
AesBlockBytes == 16
\* the number of entries logSecurityEvent, makeDecision and evaluateDecision keep
MaxSecurityEvents == 1000
MaxDecisions == 1000
MaxLearningRecords == 500

\* the keys of the Map, and the key that the calls of Spec use
Keys == {"k1", "k2", "k3"}
OneKey == {"k1"}
\* JavaScript values, each a record named after its type: the number 7, NaN,
\* null and undefined (an array is [array |-> <<...>>], the envelope that
\* encryptData builds is [encrypted |-> ..., iv |-> ...])
Seven == [number |-> "7"]
NaN == [number |-> "NaN"]
Null == [null |-> TRUE]
Undefined == [undefined |-> TRUE]
\* the values handed to set()
Values == {Seven, NaN, Undefined}
\* the booleans that set and delete return
True == [boolean |-> "true"]
False == [boolean |-> "false"]
\* options.ttl: absent, or a number of milliseconds
NoTTL == -1
TTLs == {NoTTL, 0, 1, 2}
\* options.tags: absent (stored as []), or one tag
TagSets == {{}}
Options == [tags : TagSets, ttl : TTLs]
\* the tags handed to findByTag, and options that may carry one
Tags == {"t1"}
\* options without tags and without a ttl
UntimedOptions == [tags : TagSets, ttl : {NoTTL}]
TaggedOptions == [tags : {{}} \cup {{t} : t \in Tags}, ttl : TTLs]
\* crypto.randomBytes(16), as hex
IVs == {"iv1", "iv2"}

NoObject == [absent |-> TRUE]
Idle == [op |-> "idle"]
\* a slot for a performUpdate call that holds no call
NotRunning == [step |-> "none"]

VARIABLES
    config,            \* StorageConfig, fixed by the constructor
    cipherAvailable,   \* whether crypto.createCipher exists in this Node runtime
    store,             \* Map<string, StoredObject> as a function on Keys
    order,             \* insertion order of the Map's keys
    sizeTracker,       \* running size total
    replicationNodes,  \* ReplicationNode[]
    timers,            \* per node, the pending setTimeout callbacks of forceSync
    now,               \* Date.now()
    calls,             \* set/delete calls suspended at an await of their fan-out
    ret,               \* the value the most recent foreground call returns (for a
                       \* call suspended in calls: what its promise resolves to)
    lastVersion,       \* for each key, the version most recently assigned to it
    evicted,           \* the entries that the while loop of performCleanup removed
                       \* during the most recent set, in the order of their removal,
                       \* each with the sizeTracker the loop tested before removing it
    syncTimer,         \* the field syncTimer: "null", or the interval, "active" or "cleared"
    backupTimer,       \* the field backupTimer, likewise
    backups,           \* how many times performBackup has run
    shutdown,          \* progress of shutdown(): "none", "running", "returned"
    peer,              \* store, order and sizeTracker of a second instance (node B)
    core,              \* CoreSystem: state.status, state.lastUpdate, the metrics,
                       \* commandQueue, and the initiateUpdate calls at their await
    updater,           \* SelfUpdateModule: currentVersion, updateHistory,
                       \* updateInProgress, config, the performUpdate calls in
                       \* flight and the value the last call returned
    histories          \* SecurityModule.securityEvents, AIDecisionEngine.decisions
                       \* and learningRecords, each entry the number of its push

\* the state of the object's life cycle
lifecycle == <<syncTimer, backupTimer, backups, shutdown>>

\* the modules next to the store
modules == <<core, updater, histories>>

\* the state of PersistentStorage
storage == <<config, cipherAvailable, store, order, sizeTracker, replicationNodes,
             timers, now, calls, ret, lastVersion, evicted, lifecycle, peer>>

vars == <<config, cipherAvailable, store, order, sizeTracker, replicationNodes,
          timers, now, calls, ret, lastVersion, evicted, lifecycle, peer, modules>>

\* ------------------------------------------------------ pure helpers
Max(a, b) == IF a > b THEN a ELSE b

\* JSON.stringify of a value, as JSON text: NaN serializes as null, and
\* undefined has no JSON text (JSON.stringify returns undefined)
JSONStringify(v) ==
    CASE v = Seven -> "7"
      [] v = NaN -> "null"
      [] v = Null -> "null"
      [] OTHER -> "no text"

\* JSON.parse of a JSON text
JSONParse(text) ==
    CASE text = "7" -> Seven
      [] text = "null" -> Null
      [] OTHER -> Undefined

\* .length of a JSON text
TextLength(text) ==
    CASE text = "7" -> 1
      [] text = "null" -> 4
      [] OTHER -> 0

IsEnvelope(x) == "encrypted" \in DOMAIN x

\* an envelope whose hex text no longer is what cipher.update/final produced
IsTampered(x) == "tampered" \in DOMAIN x

\* what the store holds for a plain (unencrypted) value
Plain(v) == [plain |-> v]

\* encryptData
EncryptData(data, iv) ==
    IF ~config.enableEncryption THEN Plain(data)
    ELSE IF cipherAvailable
         THEN [encrypted |-> JSONStringify(data), iv |-> iv]
         ELSE Plain(data)

\* decryptData
DecryptData(encryptedData) ==
    IF ~config.enableEncryption THEN encryptedData.plain
    ELSE IF IsEnvelope(encryptedData)
         THEN IF cipherAvailable /\ ~IsTampered(encryptedData)
              THEN JSONParse(encryptedData.encrypted)
              ELSE \* createDecipher, decipher.final or JSON.parse throws
                   encryptedData
         ELSE encryptedData.plain

\* JSON.stringify(obj.value).length of a stored value
StoredLength(x) ==
    IF IsEnvelope(x)
    THEN EnvelopeOverhead
         + 2 * AesBlockBytes * ((TextLength(x.encrypted) \div AesBlockBytes) + 1)
    ELSE TextLength(JSONStringify(x.plain))

\* obj.ttl && (now - obj.updatedAt) > obj.ttl
Expired(obj, t) ==
    /\ obj.ttl # NoTTL
    /\ obj.ttl # 0
    /\ (t - obj.updatedAt) > obj.ttl

Present(k) == store[k] # NoObject

\* remove the elements of a set from a sequence
RECURSIVE Without(_, _)
Without(seq, S) ==
    IF seq = <<>> THEN <<>>
    ELSE IF Head(seq) \in S THEN Without(Tail(seq), S)
         ELSE <<Head(seq)>> \o Without(Tail(seq), S)

\* the insertion of a sort whose comparator is b - a: newest first
RECURSIVE InsertSorted_Descending(_, _, _)
InsertSorted_Descending(seq, k, st) ==
    IF seq = <<>> THEN <<k>>
    ELSE IF st[k].createdAt - st[Head(seq)].createdAt > 0
         THEN <<k>> \o seq
         ELSE <<Head(seq)>> \o InsertSorted_Descending(Tail(seq), k, st)

\* insert key k into a sequence sorted by createdAt, after the equal ones
RECURSIVE InsertSorted(_, _, _)
InsertSorted(seq, k, st) ==
    IF seq = <<>> THEN <<k>>
    ELSE IF st[Head(seq)].createdAt - st[k].createdAt > 0
         THEN <<k>> \o seq
         ELSE <<Head(seq)>> \o InsertSorted(Tail(seq), k, st)

\* Array.from(store.entries()).sort(by createdAt): a stable sort
RECURSIVE SortByCreatedAt(_, _)
SortByCreatedAt(seq, st) ==
    IF seq = <<>> THEN <<>>
    ELSE InsertSorted(SortByCreatedAt(SubSeq(seq, 1, Len(seq) - 1), st),
                      seq[Len(seq)], st)

\* a while loop that tests only entries.length > 0
RECURSIVE EvictOldest_UntilEmpty(_, _)
EvictOldest_UntilEmpty(entries, s) ==
    IF entries # <<>>
    THEN LET key == Head(entries)
             sizeInKB == StoredLength(s.store[key].value)
         IN  EvictOldest_UntilEmpty(Tail(entries),
                 [store |-> [s.store EXCEPT ![key] = NoObject],
                  order |-> Without(s.order, {key}),
                  sizeTracker |-> Max(0, s.sizeTracker - sizeInKB),
                  evicted |-> Append(s.evicted,
                                 [key |-> key,
                                  createdAt |-> s.store[key].createdAt,
                                  usedBefore |-> s.sizeTracker])])
    ELSE s

\* the while loop of performCleanup
RECURSIVE EvictOldest(_, _)
EvictOldest(entries, s) ==
    IF 10 * s.sizeTracker > 9 * config.maxStorageSize /\ entries # <<>>
    THEN LET key == Head(entries)
             sizeInKB == StoredLength(s.store[key].value)
         IN  EvictOldest(Tail(entries),
                 [store |-> [s.store EXCEPT ![key] = NoObject],
                  order |-> Without(s.order, {key}),
                  sizeTracker |-> Max(0, s.sizeTracker - sizeInKB),
                  evicted |-> Append(s.evicted,
                                 [key |-> key,
                                  createdAt |-> s.store[key].createdAt,
                                  usedBefore |-> s.sizeTracker])])
    ELSE s

\* performCleanup, on the state s = [store, order, sizeTracker, evicted]
PerformCleanup(s, t) ==
    LET keysToRemove == {k \in Keys : s.store[k] # NoObject /\ Expired(s.store[k], t)}
        s1 == [store |-> [k \in Keys |-> IF k \in keysToRemove THEN NoObject
                                         ELSE s.store[k]],
               order |-> Without(s.order, keysToRemove),
               sizeTracker |-> s.sizeTracker,
               evicted |-> s.evicted]
    IN  IF s1.sizeTracker > config.maxStorageSize
        THEN EvictOldest(SortByCreatedAt(s1.order, s1.store), s1)
        ELSE s1

\* first index >= from of a node that is online, 0 if there is none
NextOnline(nodes, from) ==
    LET S == {i \in from..Len(nodes) : nodes[i].status = "online"}
    IN  IF S = {} THEN 0 ELSE CHOOSE i \in S : \A j \in S : i <= j

FreeSlots == {i \in 1..MaxCalls : calls[i] = Idle}

\* the calls after a fan-out (replicateSet / replicateDelete) has started and
\* run up to its first await
StartFanOut(op, key) ==
    LET first == IF config.enableReplication THEN NextOnline(replicationNodes, 1) ELSE 0
    IN  IF first = 0 THEN calls
        ELSE LET i == CHOOSE i \in FreeSlots : \A j \in FreeSlots : i <= j
             IN  [calls EXCEPT ![i] = [op |-> op, key |-> key, idx |-> first]]

CanFanOut ==
    (config.enableReplication /\ NextOnline(replicationNodes, 1) # 0) => FreeSlots # {}

\* ------------------------------------------------------------- Init
Init ==
    /\ config \in [enableReplication : BOOLEAN,
                   replicationFactor : {ReplicationFactor},
                   maxStorageSize : {MaxStorageChars},
                   enableEncryption : BOOLEAN]
    /\ cipherAvailable \in (IF config.enableEncryption THEN BOOLEAN ELSE {FALSE})
    /\ store = [k \in Keys |-> NoObject]
    /\ order = <<>>
    /\ sizeTracker = 0
    /\ replicationNodes =
         IF config.enableReplication
         THEN [i \in 1..(config.replicationFactor - 1) |->
                 [status |-> "online", lastSync |-> 0, storageUsed |-> 0]]
         ELSE <<>>
    /\ timers = [i \in 1..Len(replicationNodes) |-> 0]
    /\ now = StartTime
    /\ calls = [i \in 1..MaxCalls |-> Idle]
    /\ ret = Undefined
    /\ lastVersion = [k \in Keys |-> 0]
    /\ evicted = <<>>
    /\ syncTimer = (IF config.enableReplication THEN "active" ELSE "null")
    /\ backupTimer = "active"
    /\ backups = 0
    /\ shutdown = "none"
    /\ peer = [store |-> [k \in Keys |-> NoObject], order |-> <<>>, sizeTracker |-> 0]
    /\ core = [status |-> "running", lastUpdate |-> 0, uptime |-> 0, memoryUsage |-> 0,
               commandQueue |-> <<>>, updating |-> 0]
    /\ updater = [currentVersion |-> 0,
                  updateHistory |-> <<0>>,
                  updateInProgress |-> FALSE,
                  config |-> [autoUpdate |-> TRUE, backupBeforeUpdate |-> TRUE,
                              testBeforeDeploy |-> TRUE],
                  running |-> [i \in 1..MaxUpdateCalls |-> NotRunning],
                  returned |-> Undefined,
                  updateAvailable |-> Undefined]
    /\ histories = [securityEvents |-> <<1>>, logged |-> 1,
                    decisions |-> <<>>, decided |-> 0,
                    learningRecords |-> <<>>, learned |-> 0]

\* ---------------------------------------------------------- actions
\* sizeInKB of set: JSON.stringify(value).length
SizeOf(value) == TextLength(JSONStringify(value))

\* the store as set finds it after its storage-limit check (and cleanup, if run)
AfterLimitCheck(value) ==
    LET s0 == [store |-> store, order |-> order, sizeTracker |-> sizeTracker,
               evicted |-> <<>>]
    IN  IF sizeTracker + SizeOf(value) > config.maxStorageSize
        THEN PerformCleanup(s0, now) ELSE s0

\* the StoredObject that set builds
NewObject(existing, value, options, iv) ==
    [value |-> EncryptData(value, iv),
     createdAt |-> IF existing # NoObject THEN existing.createdAt ELSE now,
     updatedAt |-> now,
     version |-> IF existing # NoObject THEN existing.version + 1 ELSE 1,
     tags |-> options.tags,
     ttl |-> options.ttl]

\* set(key, value, options) up to its first await; iv is crypto.randomBytes(16)
Set(key, value, options, iv) ==
    IF value = Undefined
    THEN \* JSON.stringify(undefined).length throws; the catch returns false
         /\ ret' = False
         /\ evicted' = <<>>
         /\ UNCHANGED <<config, modules, lifecycle, peer, timers, cipherAvailable, store, order, sizeTracker,
                        replicationNodes, now, calls, lastVersion>>
    ELSE LET s1 == AfterLimitCheck(value)
             existing == s1.store[key]
             obj == NewObject(existing, value, options, iv)
         IN  /\ obj.version <= MaxVersion
             /\ CanFanOut
             /\ \A i \in 1..Len(replicationNodes) :
                    replicationNodes[i].storageUsed < MaxNodeStorageUsed
             /\ store' = [s1.store EXCEPT ![key] = obj]
             /\ order' = IF existing # NoObject THEN s1.order ELSE Append(s1.order, key)
             /\ sizeTracker' = s1.sizeTracker + SizeOf(value)
             /\ calls' = StartFanOut("replicateSet", key)
             /\ ret' = True
             /\ lastVersion' = [lastVersion EXCEPT ![key] = obj.version]
             /\ evicted' = s1.evicted
             /\ UNCHANGED <<config, modules, lifecycle, peer, timers, cipherAvailable, replicationNodes, now>>

\* delete(key) that adjusts the size counter and fans out but leaves the object
\* in the Map
DeleteExisting_KeepsObject(key) ==
    LET sizeInKB == StoredLength(store[key].value)
    IN  /\ sizeTracker' = Max(0, sizeTracker - sizeInKB)
        /\ store' = store
        /\ order' = order
        /\ calls' = StartFanOut("replicateDelete", key)

\* the part of delete(key) before its first await, on an existing key
DeleteExisting(key) ==
    LET sizeInKB == StoredLength(store[key].value)
    IN  /\ sizeTracker' = Max(0, sizeTracker - sizeInKB)
        /\ store' = [store EXCEPT ![key] = NoObject]
        /\ order' = Without(order, {key})
        /\ calls' = StartFanOut("replicateDelete", key)

\* delete(key)
Delete(key) ==
    IF ~Present(key)
    THEN /\ ret' = False
         /\ UNCHANGED <<config, modules, lifecycle, peer, evicted, timers, cipherAvailable, store, order, sizeTracker,
                        replicationNodes, now, calls, lastVersion>>
    ELSE /\ CanFanOut
         /\ DeleteExisting(key)
         /\ ret' = True
         /\ UNCHANGED <<config, modules, lifecycle, peer, evicted, timers, cipherAvailable, replicationNodes, now, lastVersion>>

\* the value get(key) returns
GetResult(key) ==
    IF ~Present(key) THEN Undefined
    ELSE IF Expired(store[key], now) THEN Undefined
    ELSE DecryptData(store[key].value)

\* a get(key) that counts the read in the object's version
Get_CountsRead(key) ==
    /\ ret' = GetResult(key)
    /\ IF Present(key) /\ Expired(store[key], now)
       THEN /\ CanFanOut
            /\ DeleteExisting(key)
       ELSE /\ store' = IF Present(key)
                        THEN [store EXCEPT ![key].version = @ + 1] ELSE store
            /\ UNCHANGED <<order, sizeTracker, calls>>
    /\ UNCHANGED <<config, modules, lifecycle, peer, evicted, timers, cipherAvailable,
                   replicationNodes, now, lastVersion>>

\* get(key); on an expired object it runs delete(key) up to its first await
Get(key) ==
    /\ ret' = GetResult(key)
    /\ IF Present(key) /\ Expired(store[key], now)
       THEN /\ CanFanOut
            /\ DeleteExisting(key)
       ELSE UNCHANGED <<store, order, sizeTracker, calls>>
    /\ UNCHANGED <<config, modules, lifecycle, peer, evicted, timers, cipherAvailable, replicationNodes, now, lastVersion>>

\* the array findByTag builds from the Map's values, in the Map's order
RECURSIVE FindByTagResults(_, _)
FindByTagResults(keys, tag) ==
    IF keys = <<>> THEN <<>>
    ELSE LET obj == store[Head(keys)]
         IN  (IF tag \in obj.tags THEN <<DecryptData(obj.value)>> ELSE <<>>)
                 \o FindByTagResults(Tail(keys), tag)

\* findByTag(tag)
FindByTag(tag) ==
    /\ ret' = [array |-> FindByTagResults(order, tag)]
    /\ UNCHANGED <<config, modules, lifecycle, peer, evicted, timers, cipherAvailable, store, order, sizeTracker,
                   replicationNodes, now, calls, lastVersion>>

\* the hex text of a stored envelope is changed behind the store's back
Tamper(key) ==
    /\ Present(key)
    /\ IsEnvelope(store[key].value)
    /\ ~IsTampered(store[key].value)
    /\ store' = [store EXCEPT ![key].value =
                    [encrypted |-> @.encrypted, iv |-> @.iv, tampered |-> TRUE]]
    /\ UNCHANGED <<config, modules, lifecycle, peer, evicted, timers, cipherAvailable, order, sizeTracker, replicationNodes,
                   now, calls, ret, lastVersion>>

\* getStorageStats().totalObjects
TotalObjects == Cardinality({k \in Keys : Present(k)})

\* a fan-out that makes set / delete report a failure when it finds a node that
\* is not online
Replicate_PropagatesFailure(i) ==
    /\ calls[i] # Idle
    /\ calls[i].op \in {"replicateSet", "replicateDelete"}
    /\ LET c == calls[i]
           node == replicationNodes[c.idx]
           updated == IF c.op = "replicateSet"
                      THEN [node EXCEPT !.storageUsed = @ + 1, !.lastSync = now]
                      ELSE [node EXCEPT !.lastSync = now]
           nodes == [replicationNodes EXCEPT ![c.idx] = updated]
           next == NextOnline(nodes, c.idx + 1)
       IN  /\ replicationNodes' = nodes
           /\ calls' = [calls EXCEPT ![i] = IF next = 0 THEN Idle
                                            ELSE [c EXCEPT !.idx = next]]
           /\ ret' = IF \E n \in 1..Len(nodes) : nodes[n].status # "online"
                     THEN False ELSE ret
    /\ UNCHANGED <<config, modules, lifecycle, peer, evicted, timers, cipherAvailable, store, order, sizeTracker, now,
                   lastVersion>>

\* replicateSet / replicateDelete resumed after the await for node calls[i].idx
Replicate(i) ==
    /\ calls[i] # Idle
    /\ calls[i].op \in {"replicateSet", "replicateDelete"}
    /\ LET c == calls[i]
           node == replicationNodes[c.idx]
           updated == IF c.op = "replicateSet"
                      THEN [node EXCEPT !.storageUsed = @ + 1, !.lastSync = now]
                      ELSE [node EXCEPT !.lastSync = now]
           nodes == [replicationNodes EXCEPT ![c.idx] = updated]
           next == NextOnline(nodes, c.idx + 1)
       IN  /\ replicationNodes' = nodes
           /\ calls' = [calls EXCEPT ![i] = IF next = 0 THEN Idle
                                            ELSE [c EXCEPT !.idx = next]]
    /\ UNCHANGED <<config, modules, lifecycle, peer, evicted, timers, cipherAvailable, store, order, sizeTracker, now, ret,
                   lastVersion>>

\* forceSync can start: it needs a call slot only if it reaches an await
CanSync == NextOnline(replicationNodes, 1) # 0 => FreeSlots # {}

\* the suspended calls once forceSync, started by caller, has run up to its first
\* await: with no node online the loop awaits nothing and the call is over at once
ForceSyncCalls(caller) ==
    LET first == NextOnline(replicationNodes, 1)
    IN  IF first = 0 THEN calls
        ELSE LET i == CHOOSE i \in FreeSlots : \A j \in FreeSlots : i <= j
             IN  [calls EXCEPT ![i] = [op |-> "forceSync", idx |-> first,
                                       caller |-> caller]]

\* forceSync() called from outside, up to its first await
ForceSync ==
    /\ CanSync
    /\ calls' = ForceSyncCalls("caller")
    /\ UNCHANGED <<config, modules, lifecycle, peer, evicted, timers, cipherAvailable, store, order,
                   sizeTracker, replicationNodes, now, ret, lastVersion>>

\* the setInterval callback of startSync: it fires while the interval is not cleared
SyncTick ==
    /\ syncTimer = "active"
    /\ CanSync
    /\ calls' = ForceSyncCalls("syncTimer")
    /\ UNCHANGED <<config, modules, lifecycle, peer, evicted, timers, cipherAvailable, store, order,
                   sizeTracker, replicationNodes, now, ret, lastVersion>>

\* the setInterval callback of startBackup: performBackup only writes to the log
BackupTick ==
    /\ backupTimer = "active"
    /\ backups < MaxBackups
    /\ backups' = backups + 1
    /\ UNCHANGED <<config, modules, syncTimer, backupTimer, shutdown, peer, evicted, timers,
                   cipherAvailable, store, order, sizeTracker, replicationNodes, now,
                   calls, ret, lastVersion>>

\* a clearInterval that leaves the interval running
Cleared_StillRunning(timer) == timer

\* clearInterval on a timer field: null stays null
Cleared(timer) == IF timer = "null" THEN "null" ELSE "cleared"

\* shutdown() that also drops the timers forceSync has pending, leaving the nodes
\* as they are
Shutdown_CancelsTimers ==
    /\ shutdown = "none"
    /\ config.enableReplication => CanSync
    /\ syncTimer' = Cleared(syncTimer)
    /\ backupTimer' = Cleared(backupTimer)
    /\ timers' = [n \in 1..Len(replicationNodes) |-> 0]
    /\ calls' = IF config.enableReplication THEN ForceSyncCalls("shutdown") ELSE calls
    /\ shutdown' = IF calls' = calls THEN "returned" ELSE "running"
    /\ UNCHANGED <<config, modules, backups, peer, evicted, cipherAvailable, store, order,
                   sizeTracker, replicationNodes, now, ret, lastVersion>>

\* shutdown() up to the await of its final forceSync (the model follows one call
\* of shutdown)
Shutdown ==
    /\ shutdown = "none"
    /\ config.enableReplication => CanSync
    /\ syncTimer' = Cleared(syncTimer)
    /\ backupTimer' = Cleared(backupTimer)
    /\ calls' = IF config.enableReplication THEN ForceSyncCalls("shutdown") ELSE calls
    /\ shutdown' = IF calls' = calls THEN "returned" ELSE "running"
    /\ UNCHANGED <<config, modules, backups, peer, evicted, timers, cipherAvailable, store, order,
                   sizeTracker, replicationNodes, now, ret, lastVersion>>

\* forceSync resumed after the await for node calls[i].idx: the node is stamped,
\* set to syncing and a timer is set to put it back online; when the loop ends in
\* the forceSync that shutdown awaits, shutdown returns
ForceSyncResume(i) ==
    /\ calls[i] # Idle
    /\ calls[i].op = "forceSync"
    /\ timers[calls[i].idx] < MaxTimers
    /\ LET c == calls[i]
           nodes == [replicationNodes EXCEPT ![c.idx] =
                        [@ EXCEPT !.lastSync = now, !.status = "syncing"]]
           next == NextOnline(nodes, c.idx + 1)
       IN  /\ replicationNodes' = nodes
           /\ timers' = [timers EXCEPT ![c.idx] = @ + 1]
           /\ calls' = [calls EXCEPT ![i] = IF next = 0 THEN Idle
                                            ELSE [c EXCEPT !.idx = next]]
           /\ shutdown' = IF next = 0 /\ c.caller = "shutdown" THEN "returned"
                          ELSE shutdown
    /\ UNCHANGED <<config, modules, syncTimer, backupTimer, backups, peer, evicted, cipherAvailable,
                   store, order, sizeTracker, now, ret, lastVersion>>

\* a timer callback that marks node n offline
BackToOnline_MarksOffline(n) ==
    /\ n \in 1..Len(replicationNodes)
    /\ timers[n] > 0
    /\ timers' = [timers EXCEPT ![n] = @ - 1]
    /\ replicationNodes' = [replicationNodes EXCEPT ![n].status = "offline"]
    /\ UNCHANGED <<config, modules, lifecycle, peer, evicted, cipherAvailable, store, order,
                   sizeTracker, now, calls, ret, lastVersion>>

\* the setTimeout callback of forceSync for node n
BackToOnline(n) ==
    /\ n \in 1..Len(replicationNodes)
    /\ timers[n] > 0
    /\ timers' = [timers EXCEPT ![n] = @ - 1]
    /\ replicationNodes' = [replicationNodes EXCEPT ![n].status = "online"]
    /\ UNCHANGED <<config, modules, lifecycle, peer, evicted, cipherAvailable, store, order,
                   sizeTracker, now, calls, ret, lastVersion>>

\* set(key, value, options) on a second instance, node B, with the same
\* configuration and clock: the same lines as Set, applied to B's Map and size
\* counter. B's own node table, which only B's replicateSet writes and which
\* takes no part in what B stores, is not followed.
PeerSet(key, value, options, iv) ==
    /\ value # Undefined
    /\ LET s0 == [store |-> peer.store, order |-> peer.order,
                  sizeTracker |-> peer.sizeTracker, evicted |-> <<>>]
           s1 == IF s0.sizeTracker + SizeOf(value) > config.maxStorageSize
                 THEN PerformCleanup(s0, now) ELSE s0
           existing == s1.store[key]
           obj == NewObject(existing, value, options, iv)
       IN  /\ obj.version <= MaxVersion
           /\ peer' = [store |-> [s1.store EXCEPT ![key] = obj],
                       order |-> IF existing # NoObject THEN s1.order
                                 ELSE Append(s1.order, key),
                       sizeTracker |-> s1.sizeTracker + SizeOf(value)]
    /\ UNCHANGED <<config, modules, lifecycle, evicted, timers, cipherAvailable, store, order,
                   sizeTracker, replicationNodes, now, calls, ret, lastVersion>>

\* time passes
Tick ==
    /\ now + TickMillis <= StartTime + MaxTicks * TickMillis
    /\ now' = now + TickMillis
    /\ UNCHANGED <<config, modules, lifecycle, peer, evicted, timers, cipherAvailable, store, order, sizeTracker,
                   replicationNodes, calls, ret, lastVersion>>

Next ==
    \/ \E k \in OneKey, v \in Values, o \in Options, iv \in IVs : Set(k, v, o, iv)
    \/ \E k \in OneKey : Delete(k)
    \/ \E k \in OneKey : Get(k)
    \/ \E i \in 1..MaxCalls : Replicate(i)
    \/ Tick

Spec == Init /\ [][Next]_vars

\* reads of tagged and of tampered objects, on a store without replication
InitRead ==
    /\ Init
    /\ ~config.enableReplication

NextRead ==
    \/ \E k \in OneKey, v \in Values, o \in TaggedOptions, iv \in IVs : Set(k, v, o, iv)
    \/ \E k \in OneKey : Get(k)
    \/ \E t \in Tags : FindByTag(t)
    \/ \E k \in OneKey : Tamper(k)
    \/ Tick

SpecRead == InitRead /\ [][NextRead]_vars

\* writes while forceSync takes the peers in and out of the online status
InitSync ==
    /\ Init
    /\ config.enableReplication
    /\ ~config.enableEncryption

NextSync ==
    \/ \E k \in OneKey, o \in UntimedOptions : Set(k, Seven, o, "iv1")
    \/ \E k \in OneKey : Delete(k)
    \/ \E i \in 1..MaxCalls : Replicate(i)
    \/ ForceSync
    \/ \E i \in 1..MaxCalls : ForceSyncResume(i)
    \/ \E n \in 1..(ReplicationFactor - 1) : BackToOnline(n)

SpecSync == InitSync /\ [][NextSync]_vars

\* sets on several keys that fill the store, on a store without replication
InitEvict ==
    /\ Init
    /\ ~config.enableReplication

NextEvict ==
    \/ \E k \in Keys, o \in UntimedOptions : Set(k, Seven, o, "iv1")
    \/ Tick

SpecEvict == InitEvict /\ [][NextEvict]_vars

\* puts of one value on one key, with the deletes and the reads of that key
NextKey ==
    \/ \E k \in OneKey, o \in Options : Set(k, Seven, o, "iv1")
    \/ \E k \in OneKey : Delete(k)
    \/ \E k \in OneKey : Get(k)
    \/ \E i \in 1..MaxCalls : Replicate(i)
    \/ Tick

SpecKey == Init /\ [][NextKey]_vars

\* The life cycle of a store, with or without replication: the two periodic
\* timers, forced syncs, puts with their fan-out, and shutdown.
InitLife == Init /\ ~config.enableEncryption

NextLife ==
    \/ \E k \in OneKey, o \in UntimedOptions : Set(k, Seven, o, "iv1")
    \/ \E i \in 1..MaxCalls : Replicate(i)
    \/ ForceSync
    \/ SyncTick
    \/ BackupTick
    \/ Shutdown
    \/ \E i \in 1..MaxCalls : ForceSyncResume(i)
    \/ \E n \in 1..(ReplicationFactor - 1) : BackToOnline(n)

SpecLife == InitLife /\ [][NextLife]_vars

\* The same life cycle where every timer that forceSync sets fires in the end:
\* a pending setTimeout callback is never cancelled, so the event loop runs it.
SpecLifeFair ==
    SpecLife /\ \A n \in 1..(ReplicationFactor - 1) : WF_vars(BackToOnline(n))

\* Two instances, A (this store) and B (peer), that put the same key on their
\* own; forceSync on A is the reconciliation cycle. No put is made while a
\* cycle runs, so a cycle that ends has seen every put made before it.
\* no forceSync is suspended at an await
NoSyncRunning == \A i \in 1..MaxCalls : calls[i].op # "forceSync"

InitTwo ==
    /\ Init
    /\ config.enableReplication
    /\ ~config.enableEncryption

\* A puts 7 and B puts NaN while no cycle runs
PutOnA(key) ==
    /\ NoSyncRunning
    /\ \E o \in UntimedOptions : Set(key, Seven, o, "iv1")

PutOnB(key) ==
    /\ NoSyncRunning
    /\ \E o \in UntimedOptions : PeerSet(key, NaN, o, "iv1")

NextTwo ==
    \/ \E k \in OneKey : PutOnA(k)
    \/ \E k \in OneKey : PutOnB(k)
    \/ \E i \in 1..MaxCalls : Replicate(i)
    \/ ForceSync
    \/ \E i \in 1..MaxCalls : ForceSyncResume(i)
    \/ \E n \in 1..(ReplicationFactor - 1) : BackToOnline(n)
    \/ Tick

SpecTwo == InitTwo /\ [][NextTwo]_vars

\* Entries with a ttl that time lets expire while only the two periodic timers
\* run: puts with every ttl, their fan-out, the clock, and the ticks.
InitExpire ==
    /\ Init
    /\ config.enableReplication
    /\ ~config.enableEncryption

NextExpire ==
    \/ \E k \in OneKey, o \in Options : Set(k, Seven, o, "iv1")
    \/ \E i \in 1..MaxCalls : Replicate(i)
    \/ Tick
    \/ SyncTick
    \/ BackupTick
    \/ \E i \in 1..MaxCalls : ForceSyncResume(i)
    \/ \E n \in 1..(ReplicationFactor - 1) : BackToOnline(n)

SpecExpire == InitExpire /\ [][NextExpire]_vars

\* ------------------------------------------------------- CoreSystem
CommandTypes == {"status", "update", "backup", "communicate", "task"}
\* values that Math.floor(Math.random() * 40) + 40 of updateMetrics can give
MemoryReadings == {40, 79}

\* processCommand(command) up to its first await: the command is queued with the
\* time; an update command runs initiateUpdate up to its timer, the other
\* commands write nothing
ProcessCommand(type) ==
    /\ Len(core.commandQueue) < MaxCommands
    /\ core' = [core EXCEPT
                  !.commandQueue = Append(@, [type |-> type, timestamp |-> now]),
                  !.status = IF type = "update" THEN "updating" ELSE @,
                  !.updating = IF type = "update" THEN @ + 1 ELSE @]
    /\ UNCHANGED <<storage, updater, histories>>

\* initiateUpdate resumed after its timer
UpdateCompleted ==
    /\ core.updating > 0
    /\ core' = [core EXCEPT !.lastUpdate = now, !.status = "running",
                            !.updating = @ - 1]
    /\ UNCHANGED <<storage, updater, histories>>

\* cleanup()
Cleanup ==
    /\ core' = [core EXCEPT !.status = "maintenance"]
    /\ UNCHANGED <<storage, updater, histories>>

\* the setInterval callback of initializeSystem; the object was built at StartTime
UpdateMetrics ==
    /\ \E m \in MemoryReadings :
          core' = [core EXCEPT !.uptime = now - StartTime, !.memoryUsage = m]
    /\ UNCHANGED <<storage, updater, histories>>

NextCore ==
    \/ \E type \in CommandTypes : ProcessCommand(type)
    \/ UpdateCompleted
    \/ Cleanup
    \/ UpdateMetrics
    \/ Tick

\* the store is left alone, without replication or encryption
InitModules ==
    /\ Init
    /\ ~config.enableReplication
    /\ ~config.enableEncryption

SpecCore == InitModules /\ [][NextCore]_vars

\* -------------------------------------------------- SelfUpdateModule
\* a version '1.0.n' is its patch number n; incrementVersion adds one to it
IncrementVersion(version) == version + 1

\* what runTests returns: 'For simulation, tests always pass'
TestResults == {TRUE}

\* the promise of a performUpdate call that has not returned yet
Pending == [pending |-> TRUE]

\* the performUpdate calls that are past the guard and have not finished
InFlight == {i \in 1..MaxUpdateCalls : updater.running[i] # NotRunning}

\* a performUpdate(manualTrigger) that starts without looking at updateInProgress
PerformUpdate_NoGuard(manualTrigger) ==
    /\ IF ~manualTrigger /\ ~updater.config.autoUpdate
       THEN updater' = [updater EXCEPT !.returned = False]
       ELSE /\ updater.currentVersion < MaxUpdates
            /\ \E i \in 1..MaxUpdateCalls :
                  /\ updater.running[i] = NotRunning
                  /\ \A j \in 1..(i - 1) : updater.running[j] # NotRunning
                  /\ updater' = [updater EXCEPT
                        !.updateInProgress = TRUE,
                        !.returned = Pending,
                        !.running[i] =
                            [step |-> IF updater.config.backupBeforeUpdate
                                      THEN "createBackup" ELSE "downloadUpdate"]]
    /\ UNCHANGED <<storage, core, histories>>

\* performUpdate(manualTrigger) up to its first await
PerformUpdate(manualTrigger) ==
    /\ IF updater.updateInProgress
       THEN updater' = [updater EXCEPT !.returned = False]
       ELSE IF ~manualTrigger /\ ~updater.config.autoUpdate
       THEN updater' = [updater EXCEPT !.returned = False]
       ELSE /\ updater.currentVersion < MaxUpdates
            /\ \E i \in 1..MaxUpdateCalls :
                  /\ updater.running[i] = NotRunning
                  /\ \A j \in 1..(i - 1) : updater.running[j] # NotRunning
                  /\ updater' = [updater EXCEPT
                        !.updateInProgress = TRUE,
                        !.returned = Pending,
                        !.running[i] =
                            [step |-> IF updater.config.backupBeforeUpdate
                                      THEN "createBackup" ELSE "downloadUpdate"]]
    /\ UNCHANGED <<storage, core, histories>>

\* performUpdate call i resumed after the timer of the step it waits in, up to
\* its next await or its return; the finally block resets updateInProgress
UpdateStep(i) ==
    /\ updater.running[i] # NotRunning
    /\ LET c == updater.running[i]
       IN  \/ /\ c.step = "createBackup"
              /\ updater' = [updater EXCEPT !.running[i] = [step |-> "downloadUpdate"]]
           \/ /\ c.step = "downloadUpdate"
              /\ updater' = [updater EXCEPT !.running[i] =
                    [step |-> IF updater.config.testBeforeDeploy
                              THEN "runTests" ELSE "applyUpdate",
                     manifest |-> IncrementVersion(updater.currentVersion)]]
           \/ /\ c.step = "runTests"
              /\ \E testsPassed \in TestResults :
                    updater' = IF testsPassed
                               THEN [updater EXCEPT !.running[i].step = "applyUpdate"]
                               ELSE [updater EXCEPT !.running[i] = NotRunning,
                                                    !.returned = False,
                                                    !.updateInProgress = FALSE]
           \/ /\ c.step = "applyUpdate"
              /\ updater' = [updater EXCEPT !.currentVersion = c.manifest,
                                            !.running[i].step = "validateUpdate"]
           \/ /\ c.step = "validateUpdate"
              /\ updater' = [updater EXCEPT !.updateHistory = Append(@, c.manifest),
                                            !.running[i] = NotRunning,
                                            !.returned = True,
                                            !.updateInProgress = FALSE]
    /\ UNCHANGED <<storage, core, histories>>

\* checkForUpdates(): false while an update is in progress, otherwise true
\* after a timer (simulateUpdateAvailability); it writes nothing
CheckForUpdates ==
    /\ updater' = [updater EXCEPT !.updateAvailable =
                      IF updater.updateInProgress THEN False ELSE True]
    /\ UNCHANGED <<storage, core, histories>>

\* configureUpdateSettings(settings)
ConfigureUpdateSettings(settings) ==
    /\ updater' = [updater EXCEPT !.config = settings]
    /\ UNCHANGED <<storage, core, histories>>

UpdateSettings ==
    [autoUpdate : BOOLEAN, backupBeforeUpdate : BOOLEAN, testBeforeDeploy : BOOLEAN]

NextUpdate ==
    \/ \E manualTrigger \in BOOLEAN : PerformUpdate(manualTrigger)
    \/ \E i \in 1..MaxUpdateCalls : UpdateStep(i)
    \/ CheckForUpdates
    \/ \E settings \in UpdateSettings : ConfigureUpdateSettings(settings)

SpecUpdate == InitModules /\ [][NextUpdate]_vars

\* ------------------------------------ SecurityModule, AIDecisionEngine
\* a trim that keeps the first n elements
Trim_KeepsOldest(seq, n) == IF Len(seq) > n THEN SubSeq(seq, 1, n) ELSE seq

\* the array after 'if (array.length > n) array = array.slice(-n)': the last n
\* elements when there are more than n
Trim(seq, n) == IF Len(seq) > n THEN SubSeq(seq, Len(seq) - n + 1, Len(seq)) ELSE seq

\* The three histories share no state. To keep the runs apart the model fills
\* one history at a time: events are logged while the decision engine is
\* unused, decisions are made while nothing else was logged or learned, and the
\* evaluations are all of one decision.

\* logSecurityEvent(event), auditLoggingEnabled being true since construction
LogSecurityEvent ==
    /\ histories.decided = 0
    /\ histories.logged < MaxSecurityEvents + MaxOverflow
    /\ histories' = [histories EXCEPT
          !.logged = @ + 1,
          !.securityEvents = Trim(Append(@, histories.logged + 1), MaxSecurityEvents)]
    /\ UNCHANGED <<storage, core, updater>>

\* makeDecision(input) resumed after processInput; before it nothing is written
MakeDecision ==
    /\ histories.logged = 1
    /\ histories.learned = 0
    /\ histories.decided < MaxDecisions + MaxOverflow
    /\ histories' = [histories EXCEPT
          !.decided = @ + 1,
          !.decisions = Trim(Append(@, histories.decided + 1), MaxDecisions)]
    /\ UNCHANGED <<storage, core, updater>>

\* evaluateDecision(decisionId, outcome) on a decision that is in decisions,
\* learningEnabled being true
EvaluateDecision(decisionId) ==
    /\ histories.logged = 1
    /\ histories.decided = 1
    /\ \E i \in 1..Len(histories.decisions) : histories.decisions[i] = decisionId
    /\ histories.learned < MaxLearningRecords + MaxOverflow
    /\ histories' = [histories EXCEPT
          !.learned = @ + 1,
          !.learningRecords =
              Trim(Append(@, histories.learned + 1), MaxLearningRecords)]
    /\ UNCHANGED <<storage, core, updater>>

NextHistory ==
    \/ LogSecurityEvent
    \/ MakeDecision
    \/ \E decisionId \in 1..MaxDecisions : EvaluateDecision(decisionId)

SpecHistory == InitModules /\ [][NextHistory]_vars

\* ------------------------------------------------------------ claims
\* the serialized size set added for a stored value
PlainLength(x) ==
    IF IsEnvelope(x) THEN TextLength(x.encrypted)
    ELSE TextLength(JSONStringify(x.plain))

RECURSIVE SumOver(_, _)
SumOver(S, x) ==
    IF S = {} THEN 0
    ELSE LET k == CHOOSE k \in S : TRUE
         IN  (IF x = "plain" THEN PlainLength(store[k].value)
              ELSE StoredLength(store[k].value)) + SumOver(S \ {k}, x)

PresentKeys == {k \in Keys : Present(k)}

\* the version field of a replicated mutation, 0 when the call carries none
TombstoneVersion(c) == IF "version" \in DOMAIN c THEN c.version ELSE 0

\* C1: a successful set(k, v) followed immediately by get(k) returns exactly v,
\* with encryption enabled or disabled.
C1_RoundTrip ==
    [][\A k \in Keys, v \in Values, o \in Options, iv \in IVs :
          (Set(k, v, o, iv) /\ ret' = True) => GetResult(k)' = v]_vars

\* C2: every successful put on k assigns a version strictly greater than the
\* version the previous put on k assigned.
C2_PutVersionStrictlyIncreases ==
    [][\A k \in Keys, v \in Values, o \in Options, iv \in IVs :
          (Set(k, v, o, iv) /\ ret' = True /\ lastVersion[k] > 0)
              => store'[k].version > lastVersion[k]]_vars

\* C3: the version associated with a key never decreases, also across removal
\* (delete, expiry, eviction) and a later put.
C3_VersionNeverDecreases ==
    [][\A k \in Keys : Present(k)' => store'[k].version >= lastVersion[k]]_vars

\* C4: a put whose projected size still exceeds the budget after cleanup fails
\* and leaves the store, the versions and the size counter as they were.
C4_CapacityExceededLeavesStore ==
    [][\A k \in Keys, v \in Values \ {Undefined}, o \in Options, iv \in IVs :
          (Set(k, v, o, iv)
             /\ AfterLimitCheck(v).sizeTracker + SizeOf(v) > config.maxStorageSize)
              => (ret' # True /\ UNCHANGED <<store, order, sizeTracker, lastVersion>>)]_vars

\* C5: the tracked storage usage never exceeds maxStorageSize.
C5_BudgetEnforced == sizeTracker <= config.maxStorageSize

\* C6: the size counter equals the sum of the sizes of the objects in the store
\* (the size set added for each, or the size delete subtracts for each).
C6_SizeCounterExact ==
    \/ sizeTracker = SumOver(PresentKeys, "plain")
    \/ sizeTracker = SumOver(PresentKeys, "stored")

\* C7: for an object put with a TTL, get before the TTL elapses returns a value and
\* keeps the object; get after the TTL has elapsed returns undefined and removes
\* the object, so that totalObjects no longer counts it.
C7_TtlGet ==
    [][\A k \in Keys :
          (Get(k) /\ Present(k) /\ store[k].ttl # NoTTL)
              => /\ (now - store[k].updatedAt < store[k].ttl)
                        => (ret' # Undefined /\ store' = store)
                 /\ (now - store[k].updatedAt > store[k].ttl)
                        => (ret' = Undefined /\ ~Present(k)'
                            /\ TotalObjects' = TotalObjects - 1)]_vars

\* C8: an object with a ttl is expired for get and for cleanup as soon as
\* now - updatedAt >= ttl, the boundary and ttl = 0 included.
C8_ExpiredAtBoundary ==
    [][\A k \in Keys :
          (Present(k) /\ store[k].ttl # NoTTL
             /\ now - store[k].updatedAt >= store[k].ttl)
              => /\ Get(k) => (ret' = Undefined /\ ~Present(k)')
                 /\ \A k2 \in Keys, v \in Values \ {Undefined}, o \in Options,
                       iv \in IVs :
                        (Set(k2, v, o, iv)
                           /\ sizeTracker + SizeOf(v) > config.maxStorageSize)
                            => AfterLimitCheck(v).store[k] = NoObject]_vars

\* C9: delete(k) on an absent key returns false and changes nothing (store, size
\* counter, peers); delete(k) on a present key returns true and removes the
\* object, and a get(k) right after it returns undefined.
C9_Delete ==
    [][\A k \in Keys :
          Delete(k) =>
              IF ~Present(k)
              THEN /\ ret' = False
                   /\ UNCHANGED <<store, order, sizeTracker, replicationNodes, calls>>
              ELSE /\ ret' = True
                   /\ ~Present(k)'
                   /\ GetResult(k)' = Undefined]_vars

\* a delete of a key that was put before has returned true and the key is gone
C9_Witness ==
    \E k \in Keys : ~Present(k) /\ ret = True /\ lastVersion[k] > 0

\* C10: the fan-out of a delete of an existing key carries a version strictly
\* greater than the version of the deleted object.
C10_TombstoneOutranks ==
    [][\A k \in Keys :
          (Delete(k) /\ Present(k) /\ config.enableReplication)
              => \E i \in 1..MaxCalls :
                    /\ calls'[i] # Idle
                    /\ calls'[i].op = "replicateDelete"
                    /\ calls'[i].key = k
                    /\ TombstoneVersion(calls'[i]) > store[k].version]_vars

\* the values of the objects that carry the tag and are not expired, as get
\* returns them, in the Map's order
RECURSIVE LiveTagged(_, _)
LiveTagged(keys, tag) ==
    IF keys = <<>> THEN <<>>
    ELSE LET obj == store[Head(keys)]
         IN  (IF tag \in obj.tags /\ ~Expired(obj, now)
              THEN <<DecryptData(obj.value)>> ELSE <<>>)
                 \o LiveTagged(Tail(keys), tag)

\* C11: findByTag(tag) returns exactly the values of the objects that are in
\* the store, carry the tag and are not expired; an object whose ttl has elapsed
\* is not in the result even if no get has removed it yet.
C11_FindByTagSkipsExpired ==
    [][\A t \in Tags : FindByTag(t) => ret' = [array |-> LiveTagged(order, t)]]_vars

\* what a call that fails with an error hands to its caller
Failure(e) == [error |-> e]

\* C12: get of an object whose stored ciphertext has been tampered with fails
\* with DecryptionError and leaves the object in place; it returns no value,
\* neither a corrupted plaintext nor the stored envelope.
C12_TamperedGetFails ==
    [][\A k \in Keys :
          (Get(k) /\ Present(k) /\ ~Expired(store[k], now)
             /\ IsEnvelope(store[k].value) /\ IsTampered(store[k].value))
              => (ret' = Failure("DecryptionError") /\ store' = store)]_vars

\* C13: with encryption enabled, every object in the store holds ciphertext
\* together with its nonce, in every reachable state; no set leaves a plaintext
\* value at rest, also when the encryption step fails.
C13_CiphertextAtRest ==
    config.enableEncryption
        => \A k \in Keys :
               Present(k) => (IsEnvelope(store[k].value) /\ store[k].value.iv \in IVs)

\* the set calls that have not returned to their caller: they are suspended at
\* the await of their fan-out
PendingSets ==
    {i \in 1..MaxCalls : calls[i] # Idle /\ calls[i].op = "replicateSet"}

\* C14: set does not wait for replication: no set call is ever suspended until
\* its fan-out to the peers has completed.
C14_PutNotSuspendedOnFanOut == PendingSets = {}

\* C15: what set and delete report does not depend on the peers: a set of a
\* serializable value and a delete of a present key report true and are applied
\* locally whatever the status of the nodes, and no step of a fan-out or of a
\* forceSync changes the reported result or the local store.
C15_ResultIndependentOfPeers ==
    [][/\ \A k \in Keys, o \in UntimedOptions :
             Set(k, Seven, o, "iv1") => (ret' = True /\ Present(k)')
       /\ \A k \in Keys :
             (Delete(k) /\ Present(k)) => (ret' = True /\ ~Present(k)')
       /\ \A i \in 1..MaxCalls :
             (Replicate(i) \/ ForceSyncResume(i))
                 => UNCHANGED <<ret, store, order, sizeTracker>>
       /\ \A n \in 1..Len(replicationNodes) :
             BackToOnline(n) => UNCHANGED <<ret, store, order, sizeTracker>>]_vars

\* a set has reported true and left its object in the store although no node
\* was online: no node has ever been sent anything
C15_Witness ==
    /\ config.enableReplication
    /\ ret = True
    /\ \E k \in Keys : Present(k)
    /\ FreeSlots = 1..MaxCalls
    /\ \A n \in 1..Len(replicationNodes) :
           /\ replicationNodes[n].status # "online"
           /\ replicationNodes[n].storageUsed = 0

\* C16: a set that pushes the store past maxStorageSize makes the cleanup evict
\* oldest entries until the usage is at most 90% of the budget (or nothing is
\* left to evict), and the key just set is in the store when set returns.
C16_PutPastBudgetEvicts ==
    [][\A k \in Keys, o \in UntimedOptions :
          (Set(k, Seven, o, "iv1")
             /\ sizeTracker + SizeOf(Seven) > config.maxStorageSize)
              => /\ \/ 10 * AfterLimitCheck(Seven).sizeTracker
                           <= 9 * config.maxStorageSize
                    \/ AfterLimitCheck(Seven).order = <<>>
                 /\ Present(k)']_vars

\* C17: a cleanup first removes all expired entries: when it ends, the store
\* holds no entry whose ttl had elapsed when it started.
C17_CleanupRemovesAllExpired ==
    [][\A k \in Keys, v \in Values \ {Undefined}, o \in Options, iv \in IVs :
          (Set(k, v, o, iv) /\ sizeTracker + SizeOf(v) > config.maxStorageSize)
              => \A k2 \in Keys :
                    (Present(k2) /\ store[k2].ttl # NoTTL
                       /\ now - store[k2].updatedAt > store[k2].ttl)
                        => AfterLimitCheck(v).store[k2] = NoObject]_vars

\* C18: the second phase of a cleanup removes entries in ascending createdAt
\* order: the entries it removed were removed oldest first, and no entry that
\* is older than a removed one is left in the store.
C18_EvictedInCreatedAtOrder ==
    /\ \A i, j \in 1..Len(evicted) :
           i < j => evicted[i].createdAt <= evicted[j].createdAt
    /\ \A i \in 1..Len(evicted), k \in Keys :
           Present(k) => store[k].createdAt >= evicted[i].createdAt

\* the last set evicted an entry and kept a younger one that was in the store
\* with it (it has been set more than once since it was created)
C18_Witness ==
    /\ evicted # <<>>
    /\ \E k \in Keys :
           /\ Present(k)
           /\ store[k].version >= 2
           /\ store[k].createdAt > evicted[Len(evicted)].createdAt

\* C19: the second phase of a cleanup stops exactly when the usage (the size
\* counter) is at most 90% of maxStorageSize or no entries remain: after it the
\* usage is at most 90% or the store is empty, and no entry was removed while
\* the usage was already at or below 90%.
C19_SecondPhaseStops ==
    [][\A k \in Keys, o \in UntimedOptions :
          (Set(k, Seven, o, "iv1")
             /\ sizeTracker + SizeOf(Seven) > config.maxStorageSize
             /\ sizeTracker > config.maxStorageSize)
              => LET s1 == AfterLimitCheck(Seven)
                 IN  /\ \/ 10 * s1.sizeTracker <= 9 * config.maxStorageSize
                        \/ s1.order = <<>>
                     /\ \A i \in 1..Len(s1.evicted) :
                           10 * s1.evicted[i].usedBefore > 9 * config.maxStorageSize
                     /\ evicted' = s1.evicted]_vars

\* the second phase has removed two entries and stopped at a third, which is
\* still in the store
C19_Witness ==
    /\ Len(evicted) >= 2
    /\ \E k \in Keys :
           /\ Present(k)
           /\ store[k].version >= 2
           /\ \A i \in 1..Len(evicted) : evicted[i].key # k

\* of two StoredObjects for one key, the one that conflict resolution keeps
Winner(a, b) ==
    IF a.version > b.version THEN a
    ELSE IF b.version > a.version THEN b
    ELSE IF a.updatedAt >= b.updatedAt THEN a ELSE b

\* C22: when A and B have each put the same key with different values before
\* any sync, then after one reconciliation cycle both hold the entry with the
\* higher version (on a tie, the later updatedAt).
C22_ConvergeAfterCycle ==
    [][\A i \in 1..MaxCalls, k \in Keys :
          (/\ ForceSyncResume(i)
           /\ calls'[i] = Idle
           /\ Present(k)
           /\ peer.store[k] # NoObject
           /\ store[k].value # peer.store[k].value)
              => /\ store'[k] = Winner(store[k], peer.store[k])
                 /\ peer'.store[k] = Winner(store[k], peer.store[k])]_vars

\* C23: every put and delete is sent to every node of the table: the fan-out
\* starts at the first node and goes on to the next one until the last, also
\* when a node is syncing.
C23_FanOutReachesEveryNode ==
    [][/\ (ret' = True /\ store' # store)
           => \E i \in 1..MaxCalls :
                 /\ calls[i] = Idle
                 /\ calls'[i].op \in {"replicateSet", "replicateDelete"}
                 /\ calls'[i].idx = 1
       /\ \A i \in 1..MaxCalls :
             (Replicate(i) /\ calls[i].idx < Len(replicationNodes))
                 => /\ calls'[i] # Idle
                    /\ calls'[i].idx = calls[i].idx + 1]_vars

\* the entries of the node table that a Membership service reported: the source
\* has no such service, initializeReplication makes up every entry it pushes
FromMembership == {}

\* C24: the node table holds only peers that the Membership service reported;
\* the store never creates an entry itself.
C24_PeersOnlyFromMembership ==
    \A n \in 1..Len(replicationNodes) : n \in FromMembership

\* the status of node n, "none" when the table has no node n
Status(n) ==
    IF n \in 1..Len(replicationNodes) THEN replicationNodes[n].status ELSE "none"

AllowedTransitions ==
    {<<"online", "syncing">>, <<"syncing", "online">>,
     <<"online", "offline">>, <<"offline", "online">>}

\* C25: every change of a node's status is online -> syncing, syncing ->
\* online, online -> offline or offline -> online; to syncing only where
\* forceSync handles that node, back to online only by its timer.
C25_StatusTransitions ==
    [][\A n \in 1..(ReplicationFactor - 1) :
          Status(n)' # Status(n)
              => /\ <<Status(n), Status(n)'>> \in AllowedTransitions
                 /\ Status(n)' = "syncing"
                      => \E i \in 1..MaxCalls : ForceSyncResume(i) /\ calls[i].idx = n
                 /\ Status(n) = "syncing" => BackToOnline(n)]_vars

\* no set has ever succeeded, so no fan-out has stamped a node
NoPutYet == \A k \in Keys : lastVersion[k] = 0

\* a node that forceSync stamped and set to syncing is online again
C25_Witness ==
    /\ NoPutYet
    /\ \E n \in 1..Len(replicationNodes) :
          /\ replicationNodes[n].status = "online"
          /\ replicationNodes[n].lastSync > 0

\* C26: once shutdown has been called no periodic sync tick and no periodic
\* backup tick starts, and neither interval is left running, with replication
\* enabled or not.
C26_NoTickAfterShutdown ==
    [][shutdown # "none"
          => /\ ~SyncTick
             /\ ~BackupTick
             /\ syncTimer # "active"
             /\ backupTimer # "active"]_vars

\* shutdown has returned after the backup timer had fired
C26_Witness ==
    /\ shutdown = "returned"
    /\ backups > 0
    /\ backupTimer = "cleared"
    /\ syncTimer \in {"cleared", "null"}

\* C27: when shutdown has returned nothing is pending: no node is syncing and
\* no timer of forceSync is still to fire.
C27_QuiescentAfterShutdown ==
    shutdown = "returned"
        => \A n \in 1..Len(replicationNodes) :
              /\ replicationNodes[n].status # "syncing"
              /\ timers[n] = 0

\* C28: a put on a key that is present with version v leaves it at version
\* v + 1, whatever other calls are in flight.
C28_PutAddsOneToVersion ==
    [][\A k \in Keys :
          (Present(k) /\ store'[k] # NoObject /\ store'[k] # store[k])
              => store'[k].version = store[k].version + 1]_vars

\* C29: while forceSync reconciles with a node, from the start of the sync until
\* its end, the node's status is syncing.
C29_SyncingWhileReconciling ==
    \A i \in 1..MaxCalls :
        calls[i].op = "forceSync" => replicationNodes[calls[i].idx].status = "syncing"

InContact(c) == {c.idx}

\* C31: the contacts of one fan-out run in parallel: while the fan-out waits
\* for one node, the contact with every later online node has started too.
C31_FanOutInParallel ==
    \A i \in 1..MaxCalls :
        calls[i].op \in {"replicateSet", "replicateDelete"}
            => \A n \in (calls[i].idx + 1)..Len(replicationNodes) :
                  replicationNodes[n].status = "online" => n \in InContact(calls[i])

\* C32: eviction also runs on the periodic timers: after a tick of the sync or
\* the backup timer the store holds no entry whose ttl has elapsed.
C32_TickRemovesExpired ==
    [][(SyncTick \/ BackupTick)
          => \A k \in Keys : Present(k)' => ~Expired(store'[k], now')]_vars

\* the keys whose entries the first phase of a cleanup leaves in the store
LiveKeys == {k \in Keys : Present(k) /\ ~Expired(store[k], now)}

\* C33: the second phase of a cleanup runs only if the real usage still
\* exceeds the budget once the expired entries are gone: a set whose cleanup
\* evicts an entry found the sizes of the live entries above maxStorageSize.
C33_SecondPhaseOnlyOverBudget ==
    [][\A k \in Keys, o \in UntimedOptions :
          (Set(k, Seven, o, "iv1") /\ evicted' # <<>>)
              => SumOver(LiveKeys, "plain") > config.maxStorageSize]_vars

\* the size counter after a delete(key) of an existing key
SizeAfterDelete(key) == Max(0, sizeTracker - StoredLength(store[key].value))

\* C34: set of a new key followed by delete of that key puts the size counter
\* back to what it was before the set, with encryption enabled or disabled.
C34_PutDeleteRestoresSize ==
    [][\A k \in Keys, o \in UntimedOptions :
          (Set(k, Seven, o, "iv1") /\ ~Present(k) /\ ret' = True /\ evicted' = <<>>)
              => SizeAfterDelete(k)' = sizeTracker]_vars

\* C35: a put on a key that is present keeps the object's createdAt, and
\* updatedAt >= createdAt holds for every stored object.
C35_PutKeepsCreatedAt ==
    [][\A k \in Keys :
          /\ (Present(k) /\ Present(k)' /\ store'[k] # store[k])
                => store'[k].createdAt = store[k].createdAt
          /\ Present(k)' => store'[k].updatedAt >= store'[k].createdAt]_vars

\* C36: get on an absent key or on a present key that has not expired changes
\* nothing: not the store, the versions, the size counter or the node records.
C36_GetReadOnly ==
    [][\A k \in Keys :
          (Get(k) /\ (~Present(k) \/ ~Expired(store[k], now)))
              => UNCHANGED <<store, order, sizeTracker, replicationNodes, calls,
                             lastVersion>>]_vars

\* a get has returned the value of an object that is still in the store
C36_Witness ==
    \E k \in Keys : Present(k) /\ ret = DecryptData(store[k].value) /\ ret = Seven

\* C38: the completion of one update command never sets the status to running
\* while another update is still running, nor after cleanup has set it to
\* maintenance.
C38_StatusUpdatingWhileUpdating ==
    [][UpdateCompleted
          => ~(/\ core'.status = "running"
               /\ (core'.updating > 0 \/ core.status = "maintenance"))]_vars

\* C37: performUpdate is mutually exclusive: at most one call is past the
\* guard at a time, a call made while one is in progress returns false and
\* leaves currentVersion and updateHistory alone, and updateInProgress is true
\* exactly while a started update has not finished.
C37_UpdateMutualExclusion ==
    [][/\ Cardinality(InFlight') <= 1
       /\ updater'.updateInProgress = (InFlight' # {})
       /\ \A manualTrigger \in BOOLEAN :
             (PerformUpdate(manualTrigger) /\ updater.updateInProgress)
                 => /\ updater'.returned = False
                    /\ updater'.currentVersion = updater.currentVersion
                    /\ updater'.updateHistory = updater.updateHistory
                    /\ updater'.running = updater.running]_vars

\* after one update was applied, a second one is in progress and a call made
\* meanwhile has returned false
C37_Witness ==
    /\ updater.updateInProgress
    /\ updater.returned = False
    /\ updater.currentVersion > 0

\* a history holds at most cap entries, and they are the last ones pushed, in
\* the order of their push
KeepsMostRecent(seq, pushed, cap) ==
    /\ Len(seq) <= cap
    /\ Len(seq) = (IF pushed > cap THEN cap ELSE pushed)
    /\ \A i \in 1..Len(seq) : seq[i] = pushed - Len(seq) + i

\* C39: securityEvents never holds more than 1000 events, decisions never more
\* than 1000 and learningRecords never more than 500, and each holds the most
\* recent entries in insertion order.
C39_HistoriesBounded ==
    /\ KeepsMostRecent(histories.securityEvents, histories.logged, MaxSecurityEvents)
    /\ KeepsMostRecent(histories.decisions, histories.decided, MaxDecisions)
    /\ KeepsMostRecent(histories.learningRecords, histories.learned,
                       MaxLearningRecords)

\* more events were logged than securityEvents keeps
C39_Witness ==
    /\ histories.logged > MaxSecurityEvents
    /\ Len(histories.securityEvents) = MaxSecurityEvents
====
